---- MODULE Spec2Model ----
(***************************************************************************)
(* Model of microUrllib/parse.py: percent-encoding (quote,                 *)
(* quote_from_bytes), percent-decoding (unquote, unquote_to_bytes), the    *)
(* module-level Quoter cache _safe_quoters and clear_cache.                *)
(*                                                                         *)
(* Representation.  A str is a sequence of code points, a bytes object a   *)
(* sequence of numbers in 0..255.  A Python object is a record             *)
(* [t |-> type name, v |-> payload]; the outcome of a call is a record     *)
(* [exc |-> "none" or the exception's name, val |-> returned object].      *)
(***************************************************************************)
EXTENDS Naturals, Sequences, FiniteSets, TLC

VARIABLES
    _safe_quoters,  \* module global: normalised safe bytes -> Quoter
    _hextobyte,     \* module global: two hex digits -> the one decoded byte
    allocs,         \* number of Quoter objects constructed so far
    pc,             \* position of the calling client
    call,           \* the arguments of the current (last) call
    ret             \* the outcome of the last call

vars == <<_safe_quoters, _hextobyte, allocs, pc, call, ret>>

----------------------------------------------------------------------------
(* Bounds of the model.                                                    *)

\* longest byte input handed to quote_from_bytes on its own
MaxLen == 3
\* longest safe argument handed to quote_from_bytes on its own
MaxSafeLen == 1
\* longest escaped input handed to unquote_to_bytes on its own
MaxEsc == 5
\* longest text handed to unquote and split_on_non_ascii
MaxText == 4
\* Quoter constructions the long-running client goes up to
MaxAllocs == 2
\* distinct safe arguments (and Quoter constructions) of the growing client
MaxKeys == 21

----------------------------------------------------------------------------
(* Python objects and call outcomes.                                       *)

Str(v) == [t |-> "str", v |-> v]
Bytes(v) == [t |-> "bytes", v |-> v]
ByteArray(v) == [t |-> "bytearray", v |-> v]
List(v) == [t |-> "list", v |-> v]
None == [t |-> "NoneType", v |-> <<>>]

Ok(val) == [exc |-> "none", val |-> val]
Raise(e) == [exc |-> e, val |-> None]

Range(s) == {s[i] : i \in 1..Len(s)}

\* all sequences over S of length at most n
SeqsUpTo(S, n) == UNION {[1..k -> S] : k \in 0..n}

RECURSIVE Concat(_)
\* "".join(xs) / b"".join(xs)
Concat(xs) == IF xs = <<>> THEN <<>> ELSE Head(xs) \o Concat(Tail(xs))

----------------------------------------------------------------------------
(* Static data: parse.py lines 14-15 and 24-25.                            *)

MAX_CACHE_SIZE == 20

\* frozenset(b"A-Z" b"a-z" b"0-9" b"_.-")
_ALWAYS_SAFE == (65..90) \cup (97..122) \cup (48..57) \cup {95, 46, 45}

\* "0123456789ABCDEFabcdef"
_hexdig == <<48, 49, 50, 51, 52, 53, 54, 55, 56, 57,
             65, 66, 67, 68, 69, 70, 97, 98, 99, 100, 101, 102>>

\* int(c, 16) for one hex digit c
int16(c) == IF c \in 48..57 THEN c - 48
            ELSE IF c \in 65..70 THEN c - 55
            ELSE c - 87

\* {(a + b).encode(): bytes([int(a + b, 16)]) for a in _hexdig for b in _hexdig}
HexTable == [p \in {<<a, b>> : a \in Range(_hexdig), b \in Range(_hexdig)} |->
                <<16 * int16(p[1]) + int16(p[2])>>]

\* an empty dict
EmptyDict == [x \in {} |-> x]

----------------------------------------------------------------------------
(* str.encode and bytes.decode, for the codecs the model's clients use.    *)

IsSurrogate(c) == c \in 55296..57343

\* the UTF-8 encoding of one code point that is no surrogate
Utf8Of(c) ==
    IF c < 128 THEN <<c>>
    ELSE IF c < 2048 THEN <<192 + (c \div 64), 128 + (c % 64)>>
    ELSE IF c < 65536
         THEN <<224 + (c \div 4096), 128 + ((c \div 64) % 64), 128 + (c % 64)>>
    ELSE <<240 + (c \div 262144), 128 + ((c \div 4096) % 64),
           128 + ((c \div 64) % 64), 128 + (c % 64)>>

\* whether the codec can encode code point c
Encodable(c, encoding) ==
    IF encoding = "utf-8" THEN ~IsSurrogate(c)
    ELSE IF encoding = "ascii" THEN c < 128
    ELSE c < 256    \* latin-1

EncodeOne(c, encoding) == IF encoding = "utf-8" THEN Utf8Of(c) ELSE <<c>>

RECURSIVE EncodeLoop(_, _, _)
\* the bytes of text s; unencodable code points are dropped (errors="ignore")
\* or become "?" (errors="replace")
EncodeLoop(s, encoding, errors) ==
    IF s = <<>> THEN <<>>
    ELSE (IF Encodable(Head(s), encoding) THEN EncodeOne(Head(s), encoding)
          ELSE IF errors = "ignore" THEN <<>>
          ELSE <<63>>)
         \o EncodeLoop(Tail(s), encoding, errors)

\* s.encode(encoding, errors) for a str payload s: an outcome holding bytes
encode(s, encoding, errors) ==
    IF errors = "strict" /\ \E i \in 1..Len(s) : ~Encodable(s[i], encoding)
    THEN Raise("UnicodeEncodeError")
    ELSE Ok(Bytes(EncodeLoop(s, encoding, errors)))

IsCont(b) == b \in 128..191

\* the second byte a UTF-8 lead byte b0 admits
SecondOk(b0, b1) ==
    IF b0 = 224 THEN b1 \in 160..191
    ELSE IF b0 = 237 THEN b1 \in 128..159
    ELSE IF b0 = 240 THEN b1 \in 144..191
    ELSE IF b0 = 244 THEN b1 \in 128..143
    ELSE IsCont(b1)

\* number of bytes of the sequence a lead byte announces (0: no lead byte)
Utf8Need(b0) ==
    IF b0 < 128 THEN 1
    ELSE IF b0 \in 194..223 THEN 2
    ELSE IF b0 \in 224..239 THEN 3
    ELSE IF b0 \in 240..244 THEN 4
    ELSE 0

\* one decoding step at the head of bs: [n |-> bytes consumed, ok, cp]
Utf8Step(bs) ==
    LET b0 == bs[1]
        need == Utf8Need(b0)
        has(i) == i <= Len(bs)
    IN  IF need = 1 THEN [n |-> 1, ok |-> TRUE, cp |-> b0]
        ELSE IF need = 0 THEN [n |-> 1, ok |-> FALSE, cp |-> 0]
        ELSE IF ~(has(2) /\ SecondOk(b0, bs[2]))
             THEN [n |-> 1, ok |-> FALSE, cp |-> 0]
        ELSE IF need = 2
             THEN [n |-> 2, ok |-> TRUE, cp |-> (b0 - 192) * 64 + (bs[2] - 128)]
        ELSE IF ~(has(3) /\ IsCont(bs[3]))
             THEN [n |-> 2, ok |-> FALSE, cp |-> 0]
        ELSE IF need = 3
             THEN [n |-> 3, ok |-> TRUE,
                   cp |-> (b0 - 224) * 4096 + (bs[2] - 128) * 64 + (bs[3] - 128)]
        ELSE IF ~(has(4) /\ IsCont(bs[4]))
             THEN [n |-> 3, ok |-> FALSE, cp |-> 0]
        ELSE [n |-> 4, ok |-> TRUE,
              cp |-> (b0 - 240) * 262144 + (bs[2] - 128) * 4096
                     + (bs[3] - 128) * 64 + (bs[4] - 128)]

RECURSIVE Utf8Valid(_)
Utf8Valid(bs) ==
    IF bs = <<>> THEN TRUE
    ELSE LET st == Utf8Step(bs)
         IN  st.ok /\ Utf8Valid(SubSeq(bs, st.n + 1, Len(bs)))

RECURSIVE Utf8Loop(_, _)
\* the text of bs; an undecodable part becomes U+FFFD (errors="replace") or
\* is dropped (errors="ignore")
Utf8Loop(bs, errors) ==
    IF bs = <<>> THEN <<>>
    ELSE LET st == Utf8Step(bs)
         IN  (IF st.ok THEN <<st.cp>>
              ELSE IF errors = "ignore" THEN <<>>
              ELSE <<65533>>)
             \o Utf8Loop(SubSeq(bs, st.n + 1, Len(bs)), errors)

\* bs.decode(encoding, errors) for a bytes payload bs: an outcome holding str
decode(bs, encoding, errors) ==
    IF encoding = "latin-1" THEN Ok(Str(bs))
    ELSE IF errors = "strict" /\ ~Utf8Valid(bs) THEN Raise("UnicodeDecodeError")
    ELSE Ok(Str(Utf8Loop(bs, errors)))

----------------------------------------------------------------------------
(* unquote_to_bytes: parse.py lines 28-50.                                 *)

RECURSIVE split(_, _)
\* string.split(sep) for a one-byte separator: the list of segments
split(s, sep) ==
    IF \A i \in 1..Len(s) : s[i] # sep THEN <<s>>
    ELSE LET k == CHOOSE i \in 1..Len(s) :
                      s[i] = sep /\ \A j \in 1..(i - 1) : s[j] # sep
         IN  <<SubSeq(s, 1, k - 1)>> \o split(SubSeq(s, k + 1, Len(s)), sep)

\* item[:n]
Prefix(item, n) == SubSeq(item, 1, IF Len(item) < n THEN Len(item) ELSE n)

\* item[n:]
Suffix(item, n) == SubSeq(item, n + 1, Len(item))

\* UnquoteItem that drops the "%" of a malformed escape
UnquoteItemDropsPercent(table, item) ==
    IF Prefix(item, 2) \in DOMAIN table
    THEN table[Prefix(item, 2)] \o Suffix(item, 2)
    ELSE item

\* UnquoteItem that skips one byte too many after a decoded escape
UnquoteItemSkipsThree(table, item) ==
    IF Prefix(item, 2) \in DOMAIN table
    THEN table[Prefix(item, 2)] \o Suffix(item, 3)
    ELSE <<37>> \o item

\* one turn of the loop of lines 43-49: what is appended for segment item
UnquoteItem(table, item) ==
    IF Prefix(item, 2) \in DOMAIN table
    THEN table[Prefix(item, 2)] \o Suffix(item, 2)
    ELSE <<37>> \o item

RECURSIVE UnquoteItems(_, _)
UnquoteItems(table, items) ==
    IF items = <<>> THEN <<>>
    ELSE UnquoteItem(table, Head(items)) \o UnquoteItems(table, Tail(items))

\* lines 36-50: unquote_to_bytes for a non-empty str or bytes object
UnquoteNonEmpty(table, string) ==
    LET enc == IF string.t = "str"
               THEN encode(string.v, "utf-8", "strict")
               ELSE Ok(Bytes(string.v))
    IN  IF enc.exc # "none" THEN enc
        ELSE LET bits == split(enc.val.v, 37)
             IN  IF Len(bits) = 1 THEN enc
                 ELSE Ok(Bytes(Head(bits) \o UnquoteItems(table, Tail(bits))))

\* unquote_to_bytes that hands an empty argument back as it came
unquote_to_bytes_ReturnsArgument(table, string) ==
    IF string.v = <<>> THEN Ok(string)
    ELSE UnquoteNonEmpty(table, string)

\* unquote_to_bytes(string) for a str or bytes object, reading the table
unquote_to_bytes(table, string) ==
    IF string.v = <<>> THEN Ok(Bytes(<<>>))
    ELSE UnquoteNonEmpty(table, string)

----------------------------------------------------------------------------
(* split_on_non_ascii and unquote: parse.py lines 53-98.                   *)

\* lines 64-66 and 68-69: "if current: result.append(''.join(current))"
Flush(result, current) ==
    IF current # <<>> THEN Append(result, current) ELSE result

RECURSIVE SplitLoop(_, _, _)
\* the loop of lines 60-67 over the characters left in s
SplitLoop(s, result, current) ==
    IF s = <<>> THEN Flush(result, current)
    ELSE IF Head(s) <= 127
         THEN SplitLoop(Tail(s), result, Append(current, Head(s)))
         ELSE SplitLoop(Tail(s), Append(Flush(result, current), <<Head(s)>>), <<>>)

\* split_on_non_ascii(s): the list of str payloads
split_on_non_ascii(s) == SplitLoop(s, <<>>, <<>>)

\* the argument None of encoding / errors
NONE == "<None>"

RECURSIVE UnquoteBits(_, _, _, _, _)
\* the loop of lines 93-97 from index i (1-based here, so i is odd) on
UnquoteBits(table, bits, i, encoding, errors) ==
    IF i > Len(bits) THEN Ok(Str(<<>>))
    ELSE LET b == unquote_to_bytes(table, Str(bits[i]))
             d == IF b.exc # "none" THEN b
                  ELSE decode(b.val.v, encoding, errors)
         IN  IF d.exc # "none" THEN d
             ELSE LET rest == UnquoteBits(table, bits, i + 2, encoding, errors)
                      asis == IF i + 1 <= Len(bits) THEN bits[i + 1] ELSE <<>>
                  IN  IF rest.exc # "none" THEN rest
                      ELSE Ok(Str(d.val.v \o asis \o rest.val.v))

\* unquote(string, encoding, errors) for a str object
unquote(table, string, encoding, errors) ==
    IF 37 \notin Range(string.v) THEN Ok(string)
    ELSE UnquoteBits(table, split_on_non_ascii(string.v), 1,
                     IF encoding = NONE THEN "utf-8" ELSE encoding,
                     IF errors = NONE THEN "replace" ELSE errors)

----------------------------------------------------------------------------
(* Quoter: parse.py lines 101-122.                                         *)

\* Quoter(safe): a new object, the id-th one constructed
Quoter(safe, id) ==
    [safe |-> _ALWAYS_SAFE \cup Range(safe), cache |-> EmptyDict, id |-> id]

\* HexUpper with lower-case digits, as "%{:02x}" would give
HexLower(d) == IF d < 10 THEN 48 + d ELSE 87 + d

HexUpper(d) == IF d < 10 THEN 48 + d ELSE 55 + d

\* "%{:02X}".format(b)
Format02X(b) == <<37, HexUpper(b \div 16), HexUpper(b % 16)>>

\* line 120: the rendering of byte b under the safe set
Render(safe, b) == IF b \in safe THEN <<b>> ELSE Format02X(b)

\* Quoter.get(b): [res |-> the rendering, q |-> the Quoter afterwards]
Quoter_get(q, b) ==
    IF b \in DOMAIN q.cache THEN [res |-> q.cache[b], q |-> q]
    ELSE LET res == Render(q.safe, b)
         IN  [res |-> res, q |-> [q EXCEPT !.cache = (b :> res) @@ @]]

RECURSIVE QuoteLoop(_, _)
\* the loop of lines 191-193: [res |-> text, q |-> the Quoter afterwards]
QuoteLoop(q, bs) ==
    IF bs = <<>> THEN [res |-> <<>>, q |-> q]
    ELSE LET one == Quoter_get(q, Head(bs))
             rest == QuoteLoop(one.q, Tail(bs))
         IN  [res |-> one.res \o rest.res, q |-> rest.q]

----------------------------------------------------------------------------
(* quote_from_bytes, quote, clear_cache: parse.py lines 125-194, 19-21.    *)

RECURSIVE rstrip(_, _)
\* bs.rstrip(chars)
rstrip(bs, chars) ==
    IF bs # <<>> /\ bs[Len(bs)] \in chars
    THEN rstrip(SubSeq(bs, 1, Len(bs) - 1), chars)
    ELSE bs

\* NormalizeSafe that keeps the members >= 128 of a bytes argument
NormalizeSafeKeepsAll(safe) ==
    IF safe.t = "str" THEN encode(safe.v, "ascii", "ignore").val.v
    ELSE safe.v

\* lines 179-183: the safe argument as bytes without its non-ASCII members
NormalizeSafe(safe) ==
    IF safe.t = "str" THEN encode(safe.v, "ascii", "ignore").val.v
    ELSE SelectSeq(safe.v, LAMBDA c : c < 128)

\* a lookup that constructs a Quoter on every call
LookupQuoterAlwaysNew(quoters, n, key) == Quoter(key, n + 1)

\* the cache lookup of lines 186-189: the Quoter bound to key afterwards
LookupQuoter(quoters, n, key) ==
    IF key \in DOMAIN quoters THEN quoters[key] ELSE Quoter(key, n + 1)

\* quote_from_bytes(bs, safe) in a state with cache quoters and n Quoters
\* constructed: [ret |-> outcome, quoters, allocs |-> afterwards]
quote_from_bytes(quoters, n, bs, safe) ==
    IF bs.t \notin {"bytes", "bytearray"}
    THEN [ret |-> Raise("TypeError"), quoters |-> quoters, allocs |-> n]
    ELSE IF bs.v = <<>>
    THEN [ret |-> Ok(Str(<<>>)), quoters |-> quoters, allocs |-> n]
    ELSE LET key == NormalizeSafe(safe)
         IN  IF rstrip(bs.v, _ALWAYS_SAFE \cup Range(key)) = <<>>
             THEN [ret |-> decode(bs.v, "utf-8", "strict"),
                   quoters |-> quoters, allocs |-> n]
             ELSE LET quoter == LookupQuoter(quoters, n, key)
                      done == QuoteLoop(quoter, bs.v)
                  IN  [ret |-> Ok(Str(done.res)),
                       quoters |-> (key :> done.q) @@ quoters,
                       allocs |-> IF key \in DOMAIN quoters THEN n ELSE n + 1]

\* lines 157-161 and 167: quote for a non-empty str payload
QuoteText(quoters, n, string, safe, encoding, errors) ==
    LET enc == encode(string.v,
                      IF encoding = NONE THEN "utf-8" ELSE encoding,
                      IF errors = NONE THEN "strict" ELSE errors)
    IN  IF enc.exc # "none"
        THEN [ret |-> enc, quoters |-> quoters, allocs |-> n]
        ELSE quote_from_bytes(quoters, n, enc.val, safe)

\* quote that returns an empty argument before it looks at encoding/errors
quote_EmptyFirst(quoters, n, string, safe, encoding, errors) ==
    IF string.v = <<>>
    THEN [ret |-> Ok(Str(<<>>)), quoters |-> quoters, allocs |-> n]
    ELSE IF string.t = "str"
    THEN QuoteText(quoters, n, string, safe, encoding, errors)
    ELSE IF encoding # NONE \/ errors # NONE
         THEN [ret |-> Raise("TypeError"), quoters |-> quoters, allocs |-> n]
         ELSE quote_from_bytes(quoters, n, string, safe)

\* quote(string, safe, encoding, errors)
quote(quoters, n, string, safe, encoding, errors) ==
    IF string.t = "str"
    THEN IF string.v = <<>>
         THEN [ret |-> Ok(string), quoters |-> quoters, allocs |-> n]
         ELSE QuoteText(quoters, n, string, safe, encoding, errors)
    ELSE IF encoding # NONE \/ errors # NONE
         THEN [ret |-> Raise("TypeError"), quoters |-> quoters, allocs |-> n]
         ELSE quote_from_bytes(quoters, n, string, safe)

\* clear_cache that leaves the entries in
clear_cache_Keeps(quoters) == quoters

\* clear_cache(): the cache afterwards
clear_cache(quoters) == EmptyDict

----------------------------------------------------------------------------
(* The calls.  call holds the arguments, ret the outcome.                  *)

Args(op, string, safe, encoding, errors) ==
    [op |-> op, string |-> string, safe |-> safe,
     encoding |-> encoding, errors |-> errors]

NoCall == Args("none", None, None, NONE, NONE)

\* the state after the module is imported (lines 16 and 25)
Loaded ==
    /\ _safe_quoters = EmptyDict
    /\ _hextobyte = HexTable
    /\ allocs = 0

\* a call of quote(string, safe, encoding, errors)
CallQuote(string, safe, encoding, errors) ==
    LET r == quote(_safe_quoters, allocs, string, safe, encoding, errors)
    IN  /\ call' = Args("quote", string, safe, encoding, errors)
        /\ ret' = r.ret
        /\ _safe_quoters' = r.quoters
        /\ allocs' = r.allocs
        /\ UNCHANGED _hextobyte

\* a call of quote_from_bytes(bs, safe)
CallQuoteFromBytes(bs, safe) ==
    LET r == quote_from_bytes(_safe_quoters, allocs, bs, safe)
    IN  /\ call' = Args("quote_from_bytes", bs, safe, NONE, NONE)
        /\ ret' = r.ret
        /\ _safe_quoters' = r.quoters
        /\ allocs' = r.allocs
        /\ UNCHANGED _hextobyte

\* a call of unquote(string, encoding, errors)
CallUnquote(string, encoding, errors) ==
    /\ call' = Args("unquote", string, None, encoding, errors)
    /\ ret' = unquote(_hextobyte, string, encoding, errors)
    /\ UNCHANGED <<_safe_quoters, _hextobyte, allocs>>

\* a call of unquote_to_bytes(string)
CallUnquoteToBytes(string) ==
    /\ call' = Args("unquote_to_bytes", string, None, NONE, NONE)
    /\ ret' = unquote_to_bytes(_hextobyte, string)
    /\ UNCHANGED <<_safe_quoters, _hextobyte, allocs>>

\* a call of split_on_non_ascii(s)
CallSplitOnNonAscii(string) ==
    /\ call' = Args("split_on_non_ascii", string, None, NONE, NONE)
    /\ ret' = Ok(List(split_on_non_ascii(string.v)))
    /\ UNCHANGED <<_safe_quoters, _hextobyte, allocs>>

\* a call of clear_cache()
CallClearCache ==
    /\ call' = Args("clear_cache", None, None, NONE, NONE)
    /\ ret' = Ok(None)
    /\ _safe_quoters' = clear_cache(_safe_quoters)
    /\ UNCHANGED <<_hextobyte, allocs>>

----------------------------------------------------------------------------
(* Spec: a long-running client that calls the five public entry points in  *)
(* any order, with arguments from small sets, until MaxAllocs Quoters have *)
(* been constructed.                                                       *)

\* "/" 47, "A" 65, e-acute 233: the safe arguments "/", b"/", "/e-acute",
\* b"\xe9/", "//", "/A", b"A/"
ClientSafes ==
    {Str(<<47>>), Bytes(<<47>>), Str(<<47, 233>>), Bytes(<<233, 47>>),
     Str(<<47, 47>>), Str(<<47, 65>>), Bytes(<<65, 47>>)}

\* b"A" (all safe), b"\xc3\xa9" (e-acute in UTF-8), bytearray(b"/\xc3\xa9%")
ClientBytes ==
    {Bytes(<<65>>), Bytes(<<195, 169>>), ByteArray(<<47, 195, 169, 37>>)}

Init ==
    /\ Loaded
    /\ pc = "idle"
    /\ call = NoCall
    /\ ret = Ok(None)

ClientQuote ==
    /\ \E string \in {Str(<<233>>), Bytes(<<195, 169>>)} :
          CallQuote(string, Str(<<47>>), NONE, NONE)
    /\ allocs' <= MaxAllocs
    /\ UNCHANGED pc

ClientQuoteFromBytes ==
    /\ \E bs \in ClientBytes, safe \in ClientSafes : CallQuoteFromBytes(bs, safe)
    /\ allocs' <= MaxAllocs
    /\ UNCHANGED pc

\* unquote("%C3%A9")
ClientUnquote ==
    /\ CallUnquote(Str(<<37, 67, 51, 37, 65, 57>>), "utf-8", "replace")
    /\ UNCHANGED pc

\* unquote_to_bytes(b"%2F%")
ClientUnquoteToBytes ==
    /\ CallUnquoteToBytes(Bytes(<<37, 50, 70, 37>>))
    /\ UNCHANGED pc

ClientClearCache ==
    /\ CallClearCache
    /\ UNCHANGED pc

Next ==
    \/ ClientQuote
    \/ ClientQuoteFromBytes
    \/ ClientUnquote
    \/ ClientUnquoteToBytes
    \/ ClientClearCache

Spec == Init /\ [][Next]_vars

----------------------------------------------------------------------------
(* SpecGrow: a long-running client whose safe arguments are "", "/", "//", *)
(* ... : each call uses a safe argument it has used since the last         *)
(* clear_cache or the next longer one, up to MaxKeys distinct ones.        *)

\* "/" * n
Slashes(n) == [i \in 1..n |-> 47]

GrowQuote ==
    /\ CallQuote(Bytes(<<233>>), Str(<<>>), NONE, NONE)
    /\ allocs' <= MaxKeys
    /\ UNCHANGED pc

GrowQuoteFromBytes ==
    /\ \E n \in 0..(MaxKeys - 1) :
          /\ n <= Cardinality(DOMAIN _safe_quoters)
          /\ \E bs \in {Bytes(<<233>>), Bytes(<<65>>)} :
                CallQuoteFromBytes(bs, Str(Slashes(n)))
    /\ allocs' <= MaxKeys
    /\ UNCHANGED pc

NextGrow ==
    \/ GrowQuote
    \/ GrowQuoteFromBytes
    \/ ClientUnquote
    \/ ClientUnquoteToBytes
    \/ ClientClearCache

SpecGrow == Init /\ [][NextGrow]_vars

----------------------------------------------------------------------------
(* Single-call specifications: the client picks the arguments of one call, *)
(* may first make one other quote_from_bytes call that fills the cache,    *)
(* then makes the call.                                                    *)

\* the earlier call: b"\xe9" or b"/%" under safe "/", "" or b"%"
WarmBytes == {<<233>>, <<47, 37>>}

WarmSafes == {Str(<<47>>), Str(<<>>), Bytes(<<37>>)}

WarmUp ==
    /\ pc = "start"
    /\ \E bs \in WarmBytes, safe \in WarmSafes :
          LET r == quote_from_bytes(_safe_quoters, allocs, Bytes(bs), safe)
          IN  /\ _safe_quoters' = r.quoters
              /\ allocs' = r.allocs
    /\ pc' = "pending"
    /\ UNCHANGED <<_hextobyte, call, ret>>

Ready == pc \in {"start", "pending"}

ApplyQuote ==
    /\ Ready
    /\ call.op = "quote"
    /\ CallQuote(call.string, call.safe, call.encoding, call.errors)
    /\ pc' = "returned"

ApplyQuoteFromBytes ==
    /\ Ready
    /\ call.op = "quote_from_bytes"
    /\ CallQuoteFromBytes(call.string, call.safe)
    /\ pc' = "returned"

ApplyUnquote ==
    /\ Ready
    /\ call.op = "unquote"
    /\ CallUnquote(call.string, call.encoding, call.errors)
    /\ pc' = "returned"

ApplyUnquoteToBytes ==
    /\ Ready
    /\ call.op = "unquote_to_bytes"
    /\ CallUnquoteToBytes(call.string)
    /\ pc' = "returned"

ApplySplitOnNonAscii ==
    /\ Ready
    /\ call.op = "split_on_non_ascii"
    /\ CallSplitOnNonAscii(call.string)
    /\ pc' = "returned"

\* the client hands the text quote_from_bytes returned to unquote_to_bytes
UnquoteResult ==
    /\ pc = "returned"
    /\ call.op = "quote_from_bytes"
    /\ ret.exc = "none"
    /\ ret' = unquote_to_bytes(_hextobyte, ret.val)
    /\ pc' = "roundtrip"
    /\ UNCHANGED <<_safe_quoters, _hextobyte, allocs, call>>

InitCall(calls) ==
    /\ Loaded
    /\ pc = "start"
    /\ call \in calls
    /\ ret = Ok(None)

\* SpecQuote: one quote_from_bytes call, then the round trip.
\* "%" 37, "/" 47, "A" 65, 0xE9 233
QuoteByteVals == {37, 47, 65, 233}

QuoteSafeVals == {37, 47, 233}

QuoteSafes(n) ==
    {Str(v) : v \in SeqsUpTo(QuoteSafeVals, n)}
    \cup {Bytes(v) : v \in SeqsUpTo(QuoteSafeVals, n)}

QuoteCalls(n, m) ==
    {Args("quote_from_bytes", Bytes(b), safe, NONE, NONE) :
        b \in SeqsUpTo(QuoteByteVals, n), safe \in QuoteSafes(m)}

InitQuote == InitCall(QuoteCalls(MaxLen, MaxSafeLen))

NextQuote == WarmUp \/ ApplyQuoteFromBytes \/ UnquoteResult

SpecQuote == InitQuote /\ [][NextQuote]_vars

\* SpecUnquoteToBytes: one unquote_to_bytes call.
\* bytes over "%" 37, "2" 50, "5" 53, "A" 65, "a" 97, "g" 103
EscVals == {37, 50, 53, 65, 97, 103}

\* text over "%" 37, "2" 50, "A" 65, e-acute 233
EscTextVals == {37, 50, 65, 233}

EscCalls(n) ==
    {Args("unquote_to_bytes", Bytes(b), None, NONE, NONE) :
        b \in SeqsUpTo(EscVals, n)}
    \cup {Args("unquote_to_bytes", Str(b), None, NONE, NONE) :
        b \in SeqsUpTo(EscTextVals, n)}

InitUnquoteToBytes == InitCall(EscCalls(MaxEsc))

NextUnquoteToBytes == ApplyUnquoteToBytes

SpecUnquoteToBytes == InitUnquoteToBytes /\ [][NextUnquoteToBytes]_vars

\* SpecUnquote: one unquote or split_on_non_ascii call.
\* "%" 37, "4" 52, "A" 65, "C" 67, e-acute 233
TextVals == {37, 52, 65, 67, 233}

Texts(n) == {Str(v) : v \in SeqsUpTo(TextVals, n)}

Codecs == {<<NONE, NONE>>, <<"utf-8", "strict">>, <<"latin-1", "replace">>}

UnquoteCalls(n) ==
    {Args("unquote", s, None, c[1], c[2]) : s \in Texts(n), c \in Codecs}
    \cup {Args("split_on_non_ascii", s, None, NONE, NONE) : s \in Texts(n)}

InitUnquote == InitCall(UnquoteCalls(MaxText))

NextUnquote == ApplyUnquote \/ ApplySplitOnNonAscii

SpecUnquote == InitUnquote /\ [][NextUnquote]_vars

\* SpecEdge: one call with an empty, ill-typed or ill-combined argument (and
\* a few ordinary ones), to any of the four functions.
EdgeSafes == {Str(<<47>>), Str(<<>>), Bytes(<<37>>)}

EncodeCodecs == {NONE, "utf-8", "ascii"}

DecodeCodecs == {NONE, "utf-8", "latin-1"}

ErrorPolicies == {NONE, "strict", "replace"}

EdgeCalls ==
    {Args("quote", string, safe, encoding, errors) :
        string \in {Str(<<>>), Str(<<47, 233>>), Bytes(<<>>), Bytes(<<233>>),
                    ByteArray(<<>>)},
        safe \in EdgeSafes, encoding \in EncodeCodecs, errors \in ErrorPolicies}
    \cup {Args("quote_from_bytes", bs, safe, NONE, NONE) :
        bs \in {Bytes(<<>>), ByteArray(<<>>), Bytes(<<233>>),
                Str(<<>>), Str(<<65>>), None},
        safe \in EdgeSafes}
    \cup {Args("unquote", string, None, encoding, errors) :
        string \in {Str(<<>>), Str(<<37, 52, 49>>)},
        encoding \in DecodeCodecs, errors \in ErrorPolicies}
    \cup {Args("unquote_to_bytes", string, None, NONE, NONE) :
        string \in {Bytes(<<>>), Str(<<>>), Bytes(<<37, 52, 49>>)}}

InitEdge == InitCall(EdgeCalls)

NextEdge ==
    \/ WarmUp
    \/ ApplyQuote
    \/ ApplyQuoteFromBytes
    \/ ApplyUnquote
    \/ ApplyUnquoteToBytes

SpecEdge == InitEdge /\ [][NextEdge]_vars

----------------------------------------------------------------------------
(* Reference renderings the claims are stated with.                        *)

UpperHexDigits == <<48, 49, 50, 51, 52, 53, 54, 55, 56, 57,
                    65, 66, 67, 68, 69, 70>>

LowerHexDigits == <<48, 49, 50, 51, 52, 53, 54, 55, 56, 57,
                    97, 98, 99, 100, 101, 102>>

IsHexDigit(c) == c \in Range(UpperHexDigits) \cup Range(LowerHexDigits)

HexDigitValue(c) ==
    CHOOSE d \in 0..15 : c \in {UpperHexDigits[d + 1], LowerHexDigits[d + 1]}

\* "%XX": two upper-case zero-padded hex digits of byte x
PercentXX(x) == <<37, UpperHexDigits[(x \div 16) + 1], UpperHexDigits[(x % 16) + 1]>>

\* the always-safe bytes united with the members of safe below 128
EffectiveSafe(members) == _ALWAYS_SAFE \cup {c \in members : c < 128}

RECURSIVE Escaped(_, _)
\* each byte of bs as itself when in S, as "%XX" otherwise
Escaped(bs, S) ==
    IF bs = <<>> THEN <<>>
    ELSE (IF Head(bs) \in S THEN <<Head(bs)>> ELSE PercentXX(Head(bs)))
         \o Escaped(Tail(bs), S)

RECURSIVE Unescaped(_)
\* bs read left to right: "%" followed by two hex digits is the one byte
\* they denote, every other byte stands for itself
Unescaped(bs) ==
    IF bs = <<>> THEN <<>>
    ELSE IF bs[1] = 37 /\ Len(bs) >= 3 /\ IsHexDigit(bs[2]) /\ IsHexDigit(bs[3])
         THEN <<16 * HexDigitValue(bs[2]) + HexDigitValue(bs[3])>>
              \o Unescaped(SubSeq(bs, 4, Len(bs)))
         ELSE <<bs[1]>> \o Unescaped(Tail(bs))

HasEscape(bs) ==
    \E i \in 1..Len(bs) :
        bs[i] = 37 /\ i + 2 <= Len(bs) /\ IsHexDigit(bs[i + 1]) /\ IsHexDigit(bs[i + 2])

Returned(op) == pc = "returned" /\ call.op = op

----------------------------------------------------------------------------
(* C1  Round trip.  For every byte sequence b and every safe argument      *)
(* without "%", unquote_to_bytes(quote_from_bytes(b, safe)) == b, on the   *)
(* fast path and on the Quoter path, whatever the cache held before.       *)
C1_RoundTrip ==
    (pc = "roundtrip" /\ 37 \notin Range(call.safe.v))
        => ret = Ok(Bytes(call.string.v))

\* b"%AA" went through a Quoter an earlier call had filled, as "%25AA", and
\* came back
C1_Witness ==
    /\ pc = "roundtrip"
    /\ call.string.v = <<37, 65, 65>>
    /\ call.safe = Str(<<>>)
    /\ <<>> \in DOMAIN _safe_quoters
    /\ _safe_quoters[<<>>].id = 1
    /\ allocs = 1
    /\ 233 \in DOMAIN _safe_quoters[<<>>].cache
    /\ ret = Ok(Bytes(<<37, 65, 65>>))

----------------------------------------------------------------------------
(* C3 and C9: unquote and split_on_non_ascii, under SpecUnquote.           *)

\* number of characters with code point <= 127 that s starts with
AsciiPrefixLen(s) ==
    IF \A i \in 1..Len(s) : s[i] <= 127 THEN Len(s)
    ELSE (CHOOSE i \in 1..Len(s) : s[i] > 127 /\ \A j \in 1..(i - 1) : s[j] <= 127) - 1

RECURSIVE DecodedRuns(_, _, _, _)
\* each maximal ASCII-only run of s byte-unescaped and decoded, each
\* non-ASCII character copied where it stands
DecodedRuns(table, s, encoding, errors) ==
    LET k == AsciiPrefixLen(s)
        run == unquote_to_bytes(table, Str(SubSeq(s, 1, k)))
        d == decode(run.val.v, encoding, errors)
    IN  IF d.exc # "none" THEN d
        ELSE IF k = Len(s) THEN d
        ELSE LET rest == DecodedRuns(table, SubSeq(s, k + 2, Len(s)), encoding, errors)
             IN  IF rest.exc # "none" THEN rest
                 ELSE Ok(Str(d.val.v \o <<s[k + 1]>> \o rest.val.v))

(* C3  For every text with a "%", unquote(text, encoding, errors) is the   *)
(* in-order concatenation of each maximal ASCII-only run, byte-unescaped   *)
(* and decoded, and of each non-ASCII character copied verbatim: every     *)
(* well-formed escape is decoded wherever it stands, also after a leading  *)
(* non-ASCII character or two adjacent ones.                               *)
C3_UnquoteDecodesEveryRun ==
    (Returned("unquote") /\ 37 \in Range(call.string.v))
        => ret = DecodedRuns(_hextobyte, call.string.v,
                             IF call.encoding = NONE THEN "utf-8" ELSE call.encoding,
                             IF call.errors = NONE THEN "replace" ELSE call.errors)

(* C9  split_on_non_ascii(s) alternates, starting with an ASCII-only run:  *)
(* elements at even index (0, 2, ...) are possibly empty ASCII-only runs,  *)
(* elements at odd index are single characters above 127, and the          *)
(* elements concatenate to s.                                              *)
C9_SplitAlternates ==
    Returned("split_on_non_ascii")
        => LET bits == ret.val.v
           IN  /\ \A i \in 1..Len(bits) :
                     IF i % 2 = 1
                     THEN \A j \in 1..Len(bits[i]) : bits[i][j] <= 127
                     ELSE Len(bits[i]) = 1 /\ bits[i][1] > 127
               /\ Concat(bits) = call.string.v

----------------------------------------------------------------------------
(* C6 and C7: usage errors and empty inputs, under SpecEdge.               *)

IsByteSequence(o) == o.t \in {"bytes", "bytearray"}

\* the step in which the client's call is made
CallStep == Ready /\ pc' = "returned"

CacheUntouched == _safe_quoters' = _safe_quoters /\ allocs' = allocs

C7_EmptyInputLaw ==
    [][(CallStep /\ call.string.v = <<>>) =>
        /\ (call.op = "quote" /\ call.string.t = "str")
              => ret' = Ok(Str(<<>>)) /\ CacheUntouched
        /\ (/\ call.op = "quote"
            /\ IsByteSequence(call.string)
            /\ call.encoding = NONE
            /\ call.errors = NONE)
              => ret' = Ok(Str(<<>>)) /\ CacheUntouched
        /\ (call.op = "quote_from_bytes" /\ IsByteSequence(call.string))
              => ret' = Ok(Str(<<>>)) /\ CacheUntouched
        /\ (call.op = "unquote" /\ call.string.t = "str")
              => ret' = Ok(Str(<<>>)) /\ CacheUntouched
        /\ (call.op = "unquote_to_bytes" /\ call.string.t \in {"str", "bytes"})
              => ret' = Ok(Bytes(<<>>)) /\ CacheUntouched]_vars

\* unquote_to_bytes("") has returned b"" with the filled cache as it was
C7_Witness ==
    /\ Returned("unquote_to_bytes")
    /\ call.string = Str(<<>>)
    /\ ret = Ok(Bytes(<<>>))
    /\ allocs = 1
    /\ DOMAIN _safe_quoters = {<<>>}
    /\ DOMAIN _safe_quoters[<<>>].cache = {47, 37}

----------------------------------------------------------------------------
(* C5 and C10: the Quoter cache, under Spec.                               *)

Quoting == call'.op \in {"quote", "quote_from_bytes"}

\* the bytes the call of this step hands to the byte escaper
QuotedBytes ==
    IF call'.string.t = "str"
    THEN encode(call'.string.v, "utf-8", "strict").val.v
    ELSE call'.string.v

\* the step's call went through a Quoter
PerByteStep ==
    /\ Quoting
    /\ ret'.exc = "none"
    /\ \E i \in 1..Len(QuotedBytes) :
          QuotedBytes[i] \notin EffectiveSafe(Range(call'.safe.v))

C10_CacheWellFormed ==
    \A k \in DOMAIN _safe_quoters :
        LET q == _safe_quoters[k]
        IN  /\ \A i \in 1..Len(k) : k[i] < 128
            /\ q.safe = _ALWAYS_SAFE \cup Range(k)
            /\ \A b \in DOMAIN q.cache :
                  q.cache[b] = IF b \in q.safe THEN <<b>> ELSE PercentXX(b)

\* the Quoter for "/", reached with safe=b"\xe9/", has memoized "/" as
\* itself, "%" as "%25", 0xC3 as "%C3" and 0xA9 as "%A9"
C10_Witness ==
    /\ call.op = "quote_from_bytes"
    /\ call.safe = Bytes(<<233, 47>>)
    /\ call.string = ByteArray(<<47, 195, 169, 37>>)
    /\ <<47>> \in DOMAIN _safe_quoters
    /\ _safe_quoters[<<47>>].cache =
          (47 :> <<47>>) @@ (37 :> <<37, 50, 53>>)
          @@ (195 :> <<37, 67, 51>>) @@ (169 :> <<37, 65, 57>>)

----------------------------------------------------------------------------
(* C8: the life of a cache entry, under SpecGrow.                          *)

\* entry k is bound to the same Quoter, which has forgotten nothing
StaysBound(k) ==
    /\ k \in DOMAIN _safe_quoters'
    /\ _safe_quoters'[k].id = _safe_quoters[k].id
    /\ _safe_quoters'[k].safe = _safe_quoters[k].safe
    /\ \A b \in DOMAIN _safe_quoters[k].cache :
          /\ b \in DOMAIN _safe_quoters'[k].cache
          /\ _safe_quoters'[k].cache[b] = _safe_quoters[k].cache[b]

(* C8  Over any sequence of quote, quote_from_bytes, unquote,              *)
(* unquote_to_bytes and clear_cache calls: a cache entry is created only   *)
(* by a quote/quote_from_bytes call whose safe key is not yet present, it  *)
(* stays bound to the same Quoter until the next clear_cache, no other     *)
(* call removes or replaces an entry (so the entries may outnumber         *)
(* MAX_CACHE_SIZE), the cache is empty right after clear_cache, and the    *)
(* hex table never changes.                                                *)
C8_CacheLifecycle ==
    [][/\ _hextobyte' = _hextobyte
       /\ IF call'.op = "clear_cache" THEN DOMAIN _safe_quoters' = {}
          ELSE /\ \A k \in DOMAIN _safe_quoters : StaysBound(k)
               /\ \A k \in DOMAIN _safe_quoters' \ DOMAIN _safe_quoters :
                     /\ Quoting
                     /\ k = NormalizeSafe(call'.safe)
                     /\ allocs' = allocs + 1
                     /\ _safe_quoters'[k].id = allocs']_vars

\* the cache holds MAX_CACHE_SIZE + 1 entries, the first one, made for
\* safe="", still bound to the first Quoter constructed
C8_Witness ==
    /\ Cardinality(DOMAIN _safe_quoters) = MAX_CACHE_SIZE + 1
    /\ _safe_quoters[<<>>].id = 1
    /\ _safe_quoters[Slashes(MAX_CACHE_SIZE)].id = MAX_CACHE_SIZE + 1
    /\ call.op = "unquote"

====
